---- MODULE Spec2Model ----
(***************************************************************************)
(* Model of uefi/UefiMain.c: the UEFI loader that reads \BOOT\KERNEL_X.BIN  *)
(* to 1 MiB, resolves its entry, snapshots the memory map, terminates boot  *)
(* services and jumps to the kernel.                                        *)
(*                                                                          *)
(* The loader is one sequential thread; `pc' is its position.  Every       *)
(* firmware service it calls is an action whose outcome the firmware        *)
(* chooses.  `calls' records the firmware services invoked, in order.       *)
(* UINT64/UINTN values (x86_64: both 64 bits) are tuples of four 16-bit     *)
(* limbs, least significant first, so that arithmetic keeps its width.      *)
(***************************************************************************)
EXTENDS Integers, Sequences, FiniteSets, TLC

\* ------------------------------------------------------------------------
\* Bounds of the firmware model
\* ------------------------------------------------------------------------

\* most descriptors one pool allocation adds to the firmware's memory map
MaxGrowth == 11

\* largest value of the firmware's memory-map key at entry to UefiMain
MaxInitKey == 1

\* ------------------------------------------------------------------------
\* 64-bit unsigned arithmetic on limbs
\* ------------------------------------------------------------------------

LimbBase == 65536

U64Zero == <<0, 0, 0, 0>>

\* the UINT64 holding a natural number below 2^31
FromNat(n) == <<n % LimbBase, n \div LimbBase, 0, 0>>

\* bit pattern of 2^64 - n, for 1 <= n <= 65536
FromNeg(n) == <<LimbBase - n, LimbBase - 1, LimbBase - 1, LimbBase - 1>>

\* a + b modulo 2^64
U64Add(a, b) ==
    LET s1 == a[1] + b[1]
        s2 == a[2] + b[2] + (s1 \div LimbBase)
        s3 == a[3] + b[3] + (s2 \div LimbBase)
        s4 == a[4] + b[4] + (s3 \div LimbBase)
    IN  <<s1 % LimbBase, s2 % LimbBase, s3 % LimbBase, s4 % LimbBase>>

\* a / 0x1000 (unsigned division by the page size)
U64DivPage(a) ==
    << (a[1] \div 4096) + (a[2] % 4096) * 16,
       (a[2] \div 4096) + (a[3] % 4096) * 16,
       (a[3] \div 4096) + (a[4] % 4096) * 16,
       (a[4] \div 4096) >>

\* a < b, unsigned
U64Less(a, b) ==
    \/ a[4] < b[4]
    \/ a[4] = b[4] /\ a[3] < b[3]
    \/ a[4] = b[4] /\ a[3] = b[3] /\ a[2] < b[2]
    \/ a[4] = b[4] /\ a[3] = b[3] /\ a[2] = b[2] /\ a[1] < b[1]

\* i-th byte (0 = least significant) of a
U64Byte(a, i) ==
    LET limb == a[(i \div 2) + 1]
    IN  IF i % 2 = 0 THEN limb % 256 ELSE limb \div 256

\* ------------------------------------------------------------------------
\* Status codes
\* ------------------------------------------------------------------------

EFI_SUCCESS == "EFI_SUCCESS"
EFI_BUFFER_TOO_SMALL == "EFI_BUFFER_TOO_SMALL"
EFI_OUT_OF_RESOURCES == "EFI_OUT_OF_RESOURCES"
EFI_DEVICE_ERROR == "EFI_DEVICE_ERROR"
EFI_NOT_FOUND == "EFI_NOT_FOUND"
EFI_INVALID_PARAMETER == "EFI_INVALID_PARAMETER"
EFI_UNSUPPORTED == "EFI_UNSUPPORTED"

\* variant: EFI_BUFFER_TOO_SMALL is not counted as an error
EFI_ERROR_ButTooSmall(s) == s \notin {"EFI_SUCCESS", "EFI_BUFFER_TOO_SMALL"}

\* EFI_ERROR(Status): the status has its high bit set
EFI_ERROR(s) == s # EFI_SUCCESS

\* ------------------------------------------------------------------------
\* Program constants
\* ------------------------------------------------------------------------

\* LoadAddr = 0x00100000 (1 MiB)
LoadAddr == <<0, 16, 0, 0>>

\* PHYS_OFFSET = 0xFFFF800000000000
PHYS_OFFSET == <<0, 0, 32768, 65535>>

\* kernel_size + 0xFFF
PageRound == 4095

\* kernel_size >= 0x40: size of the ELF64 header
ElfHeaderSize == 64

\* bytes + 24: offset of e_entry
EntryOffset == 24

\* descriptor_size * 10
SafetyMargin == 10

\* ------------------------------------------------------------------------
\* The kernel file on the boot volume, and what memory at 1 MiB holds
\* ------------------------------------------------------------------------

\* the part of the image the loader inspects: bytes 0..31
HdrIdx == 0 .. 31

ElfMagic == <<127, 69, 76, 70>>

\* e_entry fields (8 bytes as stored in the file)
EntryFields ==
    { <<0, 16, 0, 0, 0, 0, 0, 0>>,                  \* 0x1000
      <<0, 16, 16, 0, 0, 0, 0, 0>>,                 \* 0x101000
      <<239, 205, 171, 137, 103, 69, 35, 1>> }      \* 0x0123456789ABCDEF

ElfHdr(e) ==
    [i \in HdrIdx |-> IF i < 4 THEN ElfMagic[i + 1]
                      ELSE IF i >= EntryOffset THEN e[i - EntryOffset + 1]
                      ELSE 0]

\* a flat binary (no magic) and one that differs from the magic in byte 3
FlatHdr == [i \in HdrIdx |-> 144]
NearElfHdr == [i \in HdrIdx |-> IF i < 3 THEN ElfMagic[i + 1] ELSE 71]

FileHeaders == {ElfHdr(e) : e \in EntryFields} \cup {FlatHdr, NearElfHdr}

\* FileInfo->FileSize values
KernelSizes ==
    { U64Zero, FromNat(1), FromNat(63), FromNat(64), FromNat(4095),
      FromNat(4096), FromNat(4097), FromNat(8192),
      FromNeg(4096), FromNeg(1) }

\* what the pages at 1 MiB contain before the loader writes to them
StaleMemory == { [i \in HdrIdx |-> 0], ElfHdr(<<0, 0, 32, 0, 0, 0, 0, 0>>) }

\* bytes a short Read may deliver
ShortCounts == { U64Zero, FromNat(63), FromNat(4096) }

\* number of header bytes among the first n bytes of the file
HdrLen(n) == IF n[2] = 0 /\ n[3] = 0 /\ n[4] = 0 /\ n[1] < 32 THEN n[1] ELSE 32

\* bytes the filesystem needs for the EFI_FILE_INFO of the kernel file
FileInfoBytes == 104

\* sizes (bytes) and strides the firmware's memory map can have at entry
MapSizes == {4096, 960}
DescSizes == {48, 40}

\* EFI_MEMORY_DESCRIPTOR_VERSION
DescVersion == 1

\* sizeof(BOOT_INFO)
BootInfoBytes == 48

\* ------------------------------------------------------------------------
\* State
\* ------------------------------------------------------------------------

VARIABLES
    pc,                 \* position of the loader
    calls,              \* firmware services invoked so far, in order
    Status,             \* value UefiMain returned ("none" while it runs)
    file,               \* the kernel file: [size, hdr]
    mem,                \* bytes 0..31 of physical memory at LoadAddr
    fwKey,              \* firmware: current memory-map key
    fwMapSize,          \* firmware: bytes the current memory map needs
    fwDescSize,         \* firmware: descriptor stride
    fwStrict,           \* firmware: every pool allocation changes the key
    lkStatus,           \* load_kernel_to_1m: returned status
    KernelFile,         \* load_kernel_to_1m: "NULL", "open", "closed"
    closes,             \* number of KernelFile->Close calls
    FileInfo,           \* load_kernel_to_1m: "NULL", "pool", "freed"
    frees,              \* number of FreePool(FileInfo) calls
    FileInfoSize,
    kernel_size,
    Pages,
    ReadSize,
    readDest,           \* buffer address passed to Read
    load_addr,          \* load_kernel_to_1m: the LoadAddr local
    kernel_entry_phys,  \* UefiMain locals
    main_kernel_size,
    mem_map,
    mem_map_size,
    desc_size,
    desc_version,
    map_key,
    bi,                 \* "NULL" or "pool"
    boot_info,          \* the BOOT_INFO record bi points to
    jump,               \* the control transfer: [target, arg]
    gmStatus,           \* get_and_copy_memory_map: returned status
    map_size,           \* get_and_copy_memory_map locals
    descriptor_size,
    descriptor_version,
    gm_map_key,
    map,                \* "NULL", "pool", "freed"
    mapBufSize          \* bytes of the pool buffer behind map

fwVars == <<fwKey, fwMapSize, fwDescSize, fwStrict>>
envVars == <<file, mem>>
lkVars == <<lkStatus, KernelFile, closes, FileInfo, frees, FileInfoSize,
            kernel_size, Pages, ReadSize, readDest, load_addr>>
outVars == <<kernel_entry_phys, main_kernel_size>>
snapVars == <<mem_map, mem_map_size, desc_size, desc_version, map_key>>
gmVars == <<gmStatus, map_size, descriptor_size, descriptor_version,
            gm_map_key, map, mapBufSize>>
biVars == <<bi, boot_info, jump>>
mainVars == <<outVars, snapVars, biVars>>

vars == <<pc, calls, Status, envVars, fwVars, lkVars, mainVars, gmVars>>

\* one firmware call: the service, the status it returned, the map key it
\* was passed or returned, and the byte count it was passed or reported
\* (-1 when the service has none)
Call(op, st, key, size) == [op |-> op, st |-> st, key |-> key, size |-> size]

\* Print(L"...") through the console protocol
PrintCall == Call("Print", EFI_SUCCESS, -1, -1)

\* map keys the firmware may hold after a pool allocation or release
KeysAfterPool(grown) ==
    IF fwStrict \/ grown THEN {fwKey + 1} ELSE {fwKey, fwKey + 1}

NoBootInfo ==
    [memory_map |-> "unset", memory_map_size |-> 0, descriptor_size |-> 0,
     descriptor_version |-> 0, physical_memory_offset |-> U64Zero,
     kernel_entry_phys |-> U64Zero]

NoJump == [target |-> U64Zero, arg |-> "none"]

Init ==
    /\ pc = "HandleProtocolLoadedImage"
    /\ calls = <<>>
    /\ Status = "none"
    /\ file \in [size : KernelSizes, hdr : FileHeaders]
    /\ mem \in StaleMemory
    /\ fwKey \in 0 .. MaxInitKey
    /\ fwMapSize \in MapSizes
    /\ fwDescSize \in DescSizes
    /\ fwStrict \in BOOLEAN
    /\ lkStatus = "none"
    /\ KernelFile = "NULL"
    /\ closes = 0
    /\ FileInfo = "NULL"
    /\ frees = 0
    /\ FileInfoSize = 0
    /\ kernel_size = U64Zero
    /\ Pages = U64Zero
    /\ ReadSize = U64Zero
    /\ readDest = U64Zero
    /\ load_addr = LoadAddr
    /\ kernel_entry_phys = U64Zero
    /\ main_kernel_size = U64Zero
    /\ mem_map = "NULL"
    /\ mem_map_size = 0
    /\ desc_size = 0
    /\ desc_version = 0
    /\ map_key = 0
    /\ bi = "NULL"
    /\ boot_info = NoBootInfo
    /\ jump = NoJump
    /\ gmStatus = "none"
    /\ map_size = 0
    /\ descriptor_size = 0
    /\ descriptor_version = 0
    /\ gm_map_key = 0
    /\ map = "NULL"
    /\ mapBufSize = 0

\* ------------------------------------------------------------------------
\* load_kernel_to_1m
\* ------------------------------------------------------------------------

\* return Status: back to the caller's check in UefiMain
LoadReturn(st) ==
    /\ lkStatus' = st
    /\ pc' = "LoadKernelReturn"

\* gBS->HandleProtocol(ImageHandle, LoadedImage)
HandleProtocolLoadedImage ==
    /\ pc = "HandleProtocolLoadedImage"
    /\ \E st \in {EFI_SUCCESS, EFI_UNSUPPORTED} :
        IF EFI_ERROR(st)
        THEN /\ calls' = calls \o <<Call("HandleProtocol", st, -1, -1), PrintCall>>
             /\ LoadReturn(st)
        ELSE /\ calls' = Append(calls, Call("HandleProtocol", st, -1, -1))
             /\ pc' = "HandleProtocolSimpleFs"
             /\ UNCHANGED lkStatus
    /\ UNCHANGED <<Status, envVars, fwVars, mainVars, gmVars, KernelFile,
                   closes, FileInfo, frees, FileInfoSize, kernel_size, Pages,
                   ReadSize, readDest, load_addr>>

\* gBS->HandleProtocol(LoadedImage->DeviceHandle, SimpleFileSystem)
HandleProtocolSimpleFs ==
    /\ pc = "HandleProtocolSimpleFs"
    /\ \E st \in {EFI_SUCCESS, EFI_UNSUPPORTED} :
        IF EFI_ERROR(st)
        THEN /\ calls' = calls \o <<Call("HandleProtocol", st, -1, -1), PrintCall>>
             /\ LoadReturn(st)
        ELSE /\ calls' = Append(calls, Call("HandleProtocol", st, -1, -1))
             /\ pc' = "OpenVolume"
             /\ UNCHANGED lkStatus
    /\ UNCHANGED <<Status, envVars, fwVars, mainVars, gmVars, KernelFile,
                   closes, FileInfo, frees, FileInfoSize, kernel_size, Pages,
                   ReadSize, readDest, load_addr>>

\* SimpleFs->OpenVolume(SimpleFs, &Root)
OpenVolume ==
    /\ pc = "OpenVolume"
    /\ \E st \in {EFI_SUCCESS, EFI_DEVICE_ERROR} :
        IF EFI_ERROR(st)
        THEN /\ calls' = calls \o <<Call("OpenVolume", st, -1, -1), PrintCall>>
             /\ LoadReturn(st)
        ELSE /\ calls' = Append(calls, Call("OpenVolume", st, -1, -1))
             /\ pc' = "OpenKernelFile"
             /\ UNCHANGED lkStatus
    /\ UNCHANGED <<Status, envVars, fwVars, mainVars, gmVars, KernelFile,
                   closes, FileInfo, frees, FileInfoSize, kernel_size, Pages,
                   ReadSize, readDest, load_addr>>

\* Root->Open(Root, &KernelFile, KernelPath, EFI_FILE_MODE_READ, 0)
OpenKernelFile ==
    /\ pc = "OpenKernelFile"
    /\ \E st \in {EFI_SUCCESS, EFI_NOT_FOUND} :
        IF EFI_ERROR(st)
        THEN /\ calls' = calls \o <<Call("Open", st, -1, -1), PrintCall>>
             /\ LoadReturn(st)
             /\ UNCHANGED KernelFile
        ELSE /\ calls' = Append(calls, Call("Open", st, -1, -1))
             /\ KernelFile' = "open"
             /\ pc' = "GetInfoProbe"
             /\ UNCHANGED lkStatus
    /\ UNCHANGED <<Status, envVars, fwVars, mainVars, gmVars,
                   closes, FileInfo, frees, FileInfoSize, kernel_size, Pages,
                   ReadSize, readDest, load_addr>>

\* KernelFile->GetInfo(..., &FileInfoSize, NULL) with FileInfoSize = 0
GetInfoProbe ==
    /\ pc = "GetInfoProbe"
    /\ \E st \in {EFI_BUFFER_TOO_SMALL, EFI_SUCCESS, EFI_DEVICE_ERROR} :
        IF st # EFI_BUFFER_TOO_SMALL /\ EFI_ERROR(st)
        THEN /\ calls' = calls \o <<Call("GetInfo", st, -1, -1), PrintCall,
                                    Call("Close", EFI_SUCCESS, -1, -1)>>
             /\ KernelFile' = "closed"
             /\ closes' = closes + 1
             /\ LoadReturn(st)
             /\ UNCHANGED FileInfoSize
        ELSE /\ calls' = Append(calls, Call("GetInfo", st, -1, -1))
             /\ FileInfoSize' =
                    IF st = EFI_BUFFER_TOO_SMALL THEN FileInfoBytes ELSE 0
             /\ pc' = "AllocFileInfo"
             /\ UNCHANGED <<lkStatus, KernelFile, closes>>
    /\ UNCHANGED <<Status, envVars, fwVars, mainVars, gmVars,
                   FileInfo, frees, kernel_size, Pages, ReadSize, readDest, load_addr>>

\* FileInfo = AllocatePool(FileInfoSize)
AllocFileInfo ==
    /\ pc = "AllocFileInfo"
    /\ \/ /\ calls' = calls \o <<Call("AllocatePool", EFI_OUT_OF_RESOURCES, -1,
                                      FileInfoSize),
                                 Call("Close", EFI_SUCCESS, -1, -1)>>
          /\ KernelFile' = "closed"
          /\ closes' = closes + 1
          /\ LoadReturn(EFI_OUT_OF_RESOURCES)
          /\ UNCHANGED <<FileInfo, fwKey>>
       \/ /\ calls' = Append(calls, Call("AllocatePool", EFI_SUCCESS, -1, FileInfoSize))
          /\ FileInfo' = "pool"
          /\ fwKey' \in KeysAfterPool(FALSE)
          /\ pc' = "GetInfoFill"
          /\ UNCHANGED <<lkStatus, KernelFile, closes>>
    /\ UNCHANGED <<Status, envVars, fwMapSize, fwDescSize, fwStrict, mainVars,
                   gmVars, frees, FileInfoSize, kernel_size, Pages, ReadSize,
                   readDest, load_addr>>

\* variant: FileInfo is released but the file is left open
CleanupNoClose ==
    /\ FileInfo' = "freed"
    /\ frees' = frees + 1
    /\ fwKey' \in KeysAfterPool(FALSE)
    /\ UNCHANGED <<KernelFile, closes>>

\* the cleanup every later return of load_kernel_to_1m performs:
\* FreePool(FileInfo); KernelFile->Close(KernelFile)
Cleanup ==
    /\ FileInfo' = "freed"
    /\ frees' = frees + 1
    /\ KernelFile' = "closed"
    /\ closes' = closes + 1
    /\ fwKey' \in KeysAfterPool(FALSE)

CleanupCalls == <<Call("FreePool", EFI_SUCCESS, -1, -1), Call("Close", EFI_SUCCESS, -1, -1)>>

\* KernelFile->GetInfo(..., &FileInfoSize, FileInfo);
\* kernel_size = FileInfo->FileSize; *out_file_size = kernel_size
GetInfoFill ==
    /\ pc = "GetInfoFill"
    /\ \E st \in (IF FileInfoSize < FileInfoBytes
                  THEN {EFI_BUFFER_TOO_SMALL}
                  ELSE {EFI_SUCCESS, EFI_DEVICE_ERROR}) :
        IF EFI_ERROR(st)
        THEN /\ calls' = calls \o <<Call("GetInfo", st, -1, -1), PrintCall>>
                               \o CleanupCalls
             /\ Cleanup
             /\ LoadReturn(st)
             /\ UNCHANGED <<kernel_size, main_kernel_size>>
        ELSE /\ calls' = Append(calls, Call("GetInfo", st, -1, -1))
             /\ kernel_size' = file.size
             /\ main_kernel_size' = file.size
             /\ pc' = "AllocatePagesAt1M"
             /\ UNCHANGED <<lkStatus, KernelFile, closes, FileInfo, frees, fwKey>>
    /\ UNCHANGED <<Status, envVars, fwMapSize, fwDescSize, fwStrict,
                   kernel_entry_phys, snapVars, biVars, gmVars, FileInfoSize,
                   Pages, ReadSize, readDest, load_addr>>

\* variant: one page more than the whole pages of the file (size / 0x1000 + 1)
PageCountExtraPage(size) == U64Add(U64DivPage(size), FromNat(1))

\* Pages = (UINTN)((kernel_size + 0xFFF) / 0x1000); if (Pages == 0) Pages = 1
PageCount(size) ==
    LET p == U64DivPage(U64Add(size, FromNat(PageRound)))
    IN  IF p = U64Zero THEN FromNat(1) ELSE p

\* physical memory can hold a region of p pages (p below 2^32)
PagesFit(p) == p[3] = 0 /\ p[4] = 0

\* variant: AllocateAnyPages, the firmware picks the range (here 2 MiB)
AllocatedAnywhere(requested) == <<0, 32, 0, 0>>

\* AllocateAddress: on success the range starts at the address requested
AllocatedAt(requested) == requested

\* LoadAddr = 0x00100000ULL;
\* gBS->AllocatePages(AllocateAddress, EfiLoaderData, Pages, &LoadAddr)
AllocatePagesAt1M ==
    /\ pc = "AllocatePagesAt1M"
    /\ Pages' = PageCount(kernel_size)
    /\ \E st \in (IF PagesFit(Pages') THEN {EFI_SUCCESS, EFI_NOT_FOUND}
                  ELSE {EFI_OUT_OF_RESOURCES}) :
        IF EFI_ERROR(st)
        THEN /\ calls' = calls \o <<Call("AllocatePages", st, -1, -1), PrintCall>>
                               \o CleanupCalls
             /\ Cleanup
             /\ LoadReturn(st)
             /\ load_addr' = LoadAddr
        ELSE /\ calls' = Append(calls, Call("AllocatePages", st, -1, -1))
             /\ load_addr' = AllocatedAt(LoadAddr)
             /\ fwKey' = fwKey + 1
             /\ pc' = "ReadKernel"
             /\ UNCHANGED <<lkStatus, KernelFile, closes, FileInfo, frees>>
    /\ UNCHANGED <<Status, envVars, fwMapSize, fwDescSize, fwStrict, mainVars,
                   gmVars, FileInfoSize, kernel_size, ReadSize, readDest>>

\* what KernelFile->Read can deliver for a request of `size' bytes:
\* everything, fewer bytes, or an error that leaves the count untouched
ReadOutcomes(size) ==
    {[st |-> EFI_SUCCESS, n |-> size], [st |-> EFI_DEVICE_ERROR, n |-> size]}
    \cup {[st |-> EFI_SUCCESS, n |-> c] : c \in {x \in ShortCounts : U64Less(x, size)}}

\* memory at LoadAddr after the firmware stored the first n bytes of the file
AfterRead(n) ==
    [i \in HdrIdx |-> IF i < HdrLen(n) THEN file.hdr[i] ELSE mem[i]]

\* variant: only the status of Read is examined, not the byte count
ReadFailedStatusOnly(st, rs, ks) == EFI_ERROR(st)

\* EFI_ERROR(Status) || ReadSize != (UINTN)kernel_size
ReadFailed(st, rs, ks) == EFI_ERROR(st) \/ rs # ks

\* ReadSize = (UINTN)kernel_size;
\* KernelFile->Read(KernelFile, &ReadSize, (VOID*)(UINTN)LoadAddr)
ReadKernel ==
    /\ pc = "ReadKernel"
    /\ readDest' = load_addr
    /\ \E r \in ReadOutcomes(kernel_size) :
        /\ ReadSize' = r.n
        /\ mem' = IF EFI_ERROR(r.st) THEN mem ELSE AfterRead(r.n)
        /\ IF ReadFailed(r.st, r.n, kernel_size)
           THEN /\ calls' = calls \o <<Call("Read", r.st, -1, -1), PrintCall>>
                                  \o CleanupCalls
                /\ Cleanup
                /\ LoadReturn(EFI_DEVICE_ERROR)
           ELSE /\ calls' = Append(calls, Call("Read", r.st, -1, -1))
                /\ pc' = "ResolveEntry"
                /\ UNCHANGED <<lkStatus, KernelFile, closes, FileInfo, frees, fwKey>>
    /\ UNCHANGED <<Status, file, fwMapSize, fwDescSize, fwStrict, mainVars,
                   gmVars, FileInfoSize, kernel_size, Pages, load_addr>>

\* *(UINT64*)(bytes + off) on x86_64: eight bytes, least significant first
ReadU64(bytes, off) ==
    [k \in 1 .. 4 |-> bytes[off + 2 * (k - 1)] + 256 * bytes[off + 2 * (k - 1) + 1]]

\* kernel_size >= 0x40 && bytes[0] == 0x7f && bytes[1] == 'E' && ...
IsElf64(size, bytes) ==
    /\ ~U64Less(size, FromNat(ElfHeaderSize))
    /\ bytes[0] = ElfMagic[1]
    /\ bytes[1] = ElfMagic[2]
    /\ bytes[2] = ElfMagic[3]
    /\ bytes[3] = ElfMagic[4]

\* variant: the magic is examined without the kernel_size >= 0x40 test
EntryOfNoSizeTest(size, bytes) ==
    IF IsElf64(FromNat(ElfHeaderSize), bytes)
    THEN ReadU64(bytes, EntryOffset)
    ELSE LoadAddr

\* variant: e_entry is taken as an offset from the load address
EntryOfRelative(size, bytes) ==
    IF IsElf64(size, bytes)
    THEN U64Add(LoadAddr, ReadU64(bytes, EntryOffset))
    ELSE LoadAddr

\* entry = LoadAddr; if (ELF64) entry = *(UINT64*)(bytes + 24)
EntryOf(size, bytes) ==
    IF IsElf64(size, bytes) THEN ReadU64(bytes, EntryOffset) ELSE LoadAddr

\* parse the header, report, release FileInfo and the file, return the entry
ResolveEntry ==
    /\ pc = "ResolveEntry"
    /\ kernel_entry_phys' = EntryOf(kernel_size, mem)
    /\ calls' = calls \o <<PrintCall>> \o CleanupCalls
    /\ Cleanup
    /\ LoadReturn(EFI_SUCCESS)
    /\ UNCHANGED <<Status, envVars, fwMapSize, fwDescSize, fwStrict,
                   main_kernel_size, snapVars, biVars, gmVars, FileInfoSize,
                   kernel_size, Pages, ReadSize, readDest, load_addr>>

\* ------------------------------------------------------------------------
\* UefiMain and get_and_copy_memory_map
\* ------------------------------------------------------------------------

\* return Status from UefiMain
MainReturn(st) ==
    /\ Status' = st
    /\ pc' = "returned"

\* if (EFI_ERROR(Status)) { Print; return Status; } Print("Kernel loaded...")
LoadKernelReturn ==
    /\ pc = "LoadKernelReturn"
    /\ calls' = Append(calls, PrintCall)
    /\ IF EFI_ERROR(lkStatus)
       THEN MainReturn(lkStatus)
       ELSE /\ pc' = "GetMemoryMapProbe"
            /\ UNCHANGED Status
    /\ UNCHANGED <<envVars, fwVars, lkVars, mainVars, gmVars>>

\* return Status from get_and_copy_memory_map
MapReturn(st) ==
    /\ gmStatus' = st
    /\ pc' = "MemoryMapReturn"

\* gBS->GetMemoryMap(&map_size, NULL, ...) with map_size = 0;
\* if (Status != EFI_BUFFER_TOO_SMALL) return Status
GetMemoryMapProbe ==
    /\ pc = "GetMemoryMapProbe"
    /\ \E st \in {EFI_BUFFER_TOO_SMALL, EFI_SUCCESS, EFI_INVALID_PARAMETER} :
        /\ calls' = Append(calls, Call("GetMemoryMap", st, fwKey, fwMapSize))
        /\ IF st # EFI_BUFFER_TOO_SMALL
           THEN /\ MapReturn(st)
                /\ UNCHANGED <<map_size, descriptor_size, descriptor_version>>
           ELSE /\ map_size' = fwMapSize
                /\ descriptor_size' = fwDescSize
                /\ descriptor_version' = DescVersion
                /\ pc' = "AllocMapBuffer"
                /\ UNCHANGED gmStatus
    /\ UNCHANGED <<Status, envVars, fwVars, lkVars, mainVars, gm_map_key, map,
                   mapBufSize>>

\* variant: the margin is a single descriptor stride
MarginSizeOneStride(size, stride) == size + stride

\* map_size += descriptor_size * 10
MarginSize(size, stride) == size + stride * SafetyMargin

\* map = AllocatePool(map_size); if (!map) return EFI_OUT_OF_RESOURCES
AllocMapBuffer ==
    /\ pc = "AllocMapBuffer"
    /\ map_size' = MarginSize(map_size, descriptor_size)
    /\ \/ /\ calls' = Append(calls, Call("AllocatePool", EFI_OUT_OF_RESOURCES, -1,
                                      map_size'))
          /\ MapReturn(EFI_OUT_OF_RESOURCES)
          /\ UNCHANGED <<map, mapBufSize, fwKey, fwMapSize>>
       \/ \E g \in 0 .. MaxGrowth :
          /\ calls' = Append(calls, Call("AllocatePool", EFI_SUCCESS, -1, map_size'))
          /\ map' = "pool"
          /\ mapBufSize' = map_size'
          /\ fwMapSize' = fwMapSize + g * fwDescSize
          /\ fwKey' \in KeysAfterPool(g > 0)
          /\ pc' = "GetMemoryMapFetch"
          /\ UNCHANGED gmStatus
    /\ UNCHANGED <<Status, envVars, fwDescSize, fwStrict, lkVars, mainVars,
                   descriptor_size, descriptor_version, gm_map_key>>

\* gBS->GetMemoryMap(&map_size, map, ...); on error FreePool(map) and return,
\* else store the five outputs and return EFI_SUCCESS
GetMemoryMapFetch ==
    /\ pc = "GetMemoryMapFetch"
    /\ \E st \in (IF map_size < fwMapSize THEN {EFI_BUFFER_TOO_SMALL}
                  ELSE {EFI_SUCCESS, EFI_INVALID_PARAMETER}) :
        IF EFI_ERROR(st)
        THEN /\ calls' = calls \o <<Call("GetMemoryMap", st, fwKey, map_size),
                                    Call("FreePool", EFI_SUCCESS, -1, -1)>>
             /\ map_size' = IF st = EFI_BUFFER_TOO_SMALL THEN fwMapSize ELSE map_size
             /\ map' = "freed"
             /\ fwKey' \in KeysAfterPool(FALSE)
             /\ MapReturn(st)
             /\ UNCHANGED <<snapVars, gm_map_key>>
        ELSE /\ calls' = Append(calls, Call("GetMemoryMap", st, fwKey, map_size))
             /\ map_size' = fwMapSize
             /\ gm_map_key' = fwKey
             /\ mem_map' = map
             /\ mem_map_size' = fwMapSize
             /\ desc_size' = fwDescSize
             /\ desc_version' = DescVersion
             /\ map_key' = fwKey
             /\ MapReturn(EFI_SUCCESS)
             /\ UNCHANGED <<map, fwKey>>
    /\ UNCHANGED <<Status, envVars, fwMapSize, fwDescSize, fwStrict, lkVars,
                   outVars, biVars, descriptor_size, descriptor_version,
                   mapBufSize>>

\* if (EFI_ERROR(Status)) { Print("GetMemoryMap failed"); return Status; }
MemoryMapReturn ==
    /\ pc = "MemoryMapReturn"
    /\ IF EFI_ERROR(gmStatus)
       THEN /\ calls' = Append(calls, PrintCall)
            /\ MainReturn(gmStatus)
       ELSE /\ pc' = "AllocBootInfo"
            /\ UNCHANGED <<calls, Status>>
    /\ UNCHANGED <<envVars, fwVars, lkVars, mainVars, gmVars>>

\* bi = AllocatePool(sizeof(BOOT_INFO)); fill in its six fields
AllocBootInfo ==
    /\ pc = "AllocBootInfo"
    /\ \/ /\ calls' = calls \o <<Call("AllocatePool", EFI_OUT_OF_RESOURCES, -1,
                                      BootInfoBytes),
                                 PrintCall>>
          /\ MainReturn(EFI_OUT_OF_RESOURCES)
          /\ UNCHANGED <<bi, boot_info, fwKey>>
       \/ /\ calls' = Append(calls, Call("AllocatePool", EFI_SUCCESS, -1, BootInfoBytes))
          /\ bi' = "pool"
          /\ boot_info' = [memory_map |-> mem_map,
                           memory_map_size |-> mem_map_size,
                           descriptor_size |-> desc_size,
                           descriptor_version |-> desc_version,
                           physical_memory_offset |-> PHYS_OFFSET,
                           kernel_entry_phys |-> kernel_entry_phys]
          /\ fwKey' \in KeysAfterPool(FALSE)
          /\ pc' = "ExitBootServices"
          /\ UNCHANGED Status
    /\ UNCHANGED <<envVars, fwMapSize, fwDescSize, fwStrict, lkVars, outVars,
                   snapVars, jump, gmVars>>

\* what the firmware answers to ExitBootServices(ImageHandle, key)
ExitStatus(key) == IF key = fwKey THEN EFI_SUCCESS ELSE EFI_INVALID_PARAMETER

\* variant: a failed ExitBootServices is returned without a message
ExitDiagnosticsNone(st) == <<>>

\* variant: the outcome of ExitBootServices is reported in either case
ExitDiagnosticsAlways(st) == <<PrintCall>>

\* the console output that follows ExitBootServices returning st
ExitDiagnostics(st) == IF EFI_ERROR(st) THEN <<PrintCall>> ELSE <<>>

\* Status = gBS->ExitBootServices(ImageHandle, map_key);
\* if (EFI_ERROR(Status)) { Print; return Status; }
ExitBootServices ==
    /\ pc = "ExitBootServices"
    /\ LET st == ExitStatus(map_key) IN
        /\ calls' = calls \o <<Call("ExitBootServices", st, map_key, -1)>>
                          \o ExitDiagnostics(st)
        /\ IF EFI_ERROR(st)
           THEN MainReturn(st)
           ELSE /\ pc' = "JumpToKernel"
                /\ UNCHANGED Status
    /\ UNCHANGED <<envVars, fwVars, lkVars, mainVars, gmVars>>

\* variant: the jump goes to the load base whatever the header says
KernelAtLoadAddr(b) == LoadAddr

\* (kernel_entry_t)(UINTN)bi->kernel_entry_phys
KernelEntry(b) == b.kernel_entry_phys

\* kernel = (kernel_entry_t)(UINTN)bi->kernel_entry_phys; kernel(bi)
JumpToKernel ==
    /\ pc = "JumpToKernel"
    /\ jump' = [target |-> KernelEntry(boot_info), arg |-> bi]
    /\ pc' = "transferred"
    /\ UNCHANGED <<calls, Status, envVars, fwVars, lkVars, outVars, snapVars,
                   bi, boot_info, gmVars>>

Next ==
    \/ HandleProtocolLoadedImage
    \/ HandleProtocolSimpleFs
    \/ OpenVolume
    \/ OpenKernelFile
    \/ GetInfoProbe
    \/ AllocFileInfo
    \/ GetInfoFill
    \/ AllocatePagesAt1M
    \/ ReadKernel
    \/ ResolveEntry
    \/ LoadKernelReturn
    \/ GetMemoryMapProbe
    \/ AllocMapBuffer
    \/ GetMemoryMapFetch
    \/ MemoryMapReturn
    \/ AllocBootInfo
    \/ ExitBootServices
    \/ JumpToKernel

Spec == Init /\ [][Next]_vars

\* the loader runs to its end: it is the only thread and every firmware
\* call returns
FairSpec == Spec /\ WF_vars(Next)

\* ------------------------------------------------------------------------
\* Vocabulary of the properties
\* ------------------------------------------------------------------------

CallIdx == DOMAIN calls

OpIdx(op) == {i \in CallIdx : calls[i].op = op}

\* index of the phase-1 (size probe) and phase-2 (populating) GetMemoryMap
IsProbe(i) ==
    /\ calls[i].op = "GetMemoryMap"
    /\ \A k \in 1 .. (i - 1) : calls[k].op # "GetMemoryMap"

IsFetch(i) ==
    /\ calls[i].op = "GetMemoryMap"
    /\ Cardinality({k \in 1 .. (i - 1) : calls[k].op = "GetMemoryMap"}) = 1

\* the memory-map snapshot: the populating call returned success
IsSnapshot(i) == IsFetch(i) /\ calls[i].st = EFI_SUCCESS

ExitSucceeded ==
    \E j \in CallIdx : calls[j].op = "ExitBootServices" /\ calls[j].st = EFI_SUCCESS

\* n >= 64 and n < 4096, read off the limbs
AtLeast64(n) == n[1] >= 64 \/ n[2] > 0 \/ n[3] > 0 \/ n[4] > 0
BelowPage(n) == n[1] < 4096 /\ n[2] = 0 /\ n[3] = 0 /\ n[4] = 0

HasMagic(h) == h[0] = 127 /\ h[1] = 69 /\ h[2] = 76 /\ h[3] = 70

\* p * 4096 = n, without overflow
IsPagesTimes4096(p, n) ==
    /\ p[4] < 16
    /\ n = << (p[1] % 16) * 4096,
              (p[1] \div 16) + (p[2] % 16) * 4096,
              (p[2] \div 16) + (p[3] % 16) * 4096,
              (p[3] \div 16) + (p[4] % 16) * 4096 >>

\* entry resolution has run / the page count has been computed
EntryResolved == lkStatus = EFI_SUCCESS
PagesComputed == OpIdx("AllocatePages") # {}

\* ------------------------------------------------------------------------
\* Properties
\* ------------------------------------------------------------------------

\* C1: between the successful populating GetMemoryMap call and the
\* ExitBootServices call the loader invokes no firmware allocation and no
\* other firmware query (console output aside): the snapshot is the last
\* resource-acquiring operation before termination.
C1_SnapshotIsLastBeforeExit ==
    \A i, j \in CallIdx :
        (IsSnapshot(i) /\ calls[j].op = "ExitBootServices" /\ i < j)
            => \A k \in (i + 1) .. (j - 1) : calls[k].op = "Print"

\* C2: once ExitBootServices has returned success no further firmware
\* service is called; the loader only goes on to the control transfer.
C2_NoServiceAfterExit ==
    \A j \in CallIdx :
        (calls[j].op = "ExitBootServices" /\ calls[j].st = EFI_SUCCESS)
            => /\ j = Len(calls)
               /\ pc \in {"JumpToKernel", "transferred"}
               /\ Status = "none"

C2_Witness ==
    /\ pc = "transferred"
    /\ ExitSucceeded
    /\ jump.arg = "pool"

\* C3: an image of at least 64 bytes that starts with 0x7F 'E' 'L' 'F'
\* resolves to the little-endian value of its bytes 24..31; every other
\* image resolves to the load base 0x00100000.
C3_EntryResolution ==
    EntryResolved =>
        IF AtLeast64(file.size) /\ HasMagic(file.hdr)
        THEN \A b \in 0 .. 7 : U64Byte(kernel_entry_phys, b) = file.hdr[24 + b]
        ELSE kernel_entry_phys = <<0, 16, 0, 0>>

C3_Witness ==
    /\ EntryResolved
    /\ HasMagic(file.hdr)
    /\ file.size = FromNat(64)
    /\ kernel_entry_phys = <<52719, 35243, 17767, 291>>

\* C4 as stated: the 8192-byte ELF image whose entry field holds 0x1000
\* resolves to the load address plus 0x1000 (0x00101000).
C4_EntryIsLoadAddrPlusField ==
    (/\ EntryResolved
     /\ file.size = FromNat(8192)
     /\ file.hdr = ElfHdr(<<0, 16, 0, 0, 0, 0, 0, 0>>))
        => kernel_entry_phys = <<4096, 16, 0, 0>>

\* C4 amended: that image resolves to 0x1000, the value of the entry field
\* itself; the load address is not added to it.
C4_EntryIsField ==
    (/\ EntryResolved
     /\ file.size = FromNat(8192)
     /\ file.hdr = ElfHdr(<<0, 16, 0, 0, 0, 0, 0, 0>>))
        => kernel_entry_phys = <<4096, 0, 0, 0>>

C4_Witness ==
    /\ EntryResolved
    /\ file.size = FromNat(8192)
    /\ file.hdr = ElfHdr(<<0, 16, 0, 0, 0, 0, 0, 0>>)
    /\ pc = "GetMemoryMapProbe"

\* C5 as stated: a file smaller than a page gets exactly 1 page, and a file
\* whose size is a multiple of 4096 gets exactly size / 4096 pages.
C5_PageCount ==
    PagesComputed =>
        /\ BelowPage(kernel_size) => Pages = <<1, 0, 0, 0>>
        /\ kernel_size[1] % 4096 = 0 => IsPagesTimes4096(Pages, kernel_size)

\* C5 amended: a file smaller than a page (the empty file included) gets
\* exactly 1 page, and a file whose size is a nonzero multiple of 4096 gets
\* exactly size / 4096 pages.
C5_PageCountNonzero ==
    PagesComputed =>
        /\ BelowPage(kernel_size) => Pages = <<1, 0, 0, 0>>
        /\ (kernel_size[1] % 4096 = 0 /\ kernel_size # <<0, 0, 0, 0>>)
              => IsPagesTimes4096(Pages, kernel_size)

C5_Witness ==
    /\ PagesComputed
    /\ kernel_size = FromNat(8192)
    /\ Pages = <<2, 0, 0, 0>>
    /\ pc = "ReadKernel"

\* C6: when the phase-1 size probe returns anything but
\* EFI_BUFFER_TOO_SMALL, a success status included, the loader builds no
\* handoff record, never calls ExitBootServices, never transfers control,
\* and what UefiMain returns is an error.
C6_ProbeResultIsFatal ==
    \A i \in CallIdx :
        (IsProbe(i) /\ calls[i].st # EFI_BUFFER_TOO_SMALL)
            => /\ bi = "NULL"
               /\ OpIdx("ExitBootServices") = {}
               /\ pc # "transferred"
               /\ pc = "returned" => Status # EFI_SUCCESS

\* C7: when the probe reports EFI_BUFFER_TOO_SMALL with size S and stride D,
\* the pool buffer requested for the populating call, and the buffer size
\* passed to it, are at least S + 10 * D.
C7_FetchBufferHasMargin ==
    \A i, j \in CallIdx :
        (IsProbe(i) /\ calls[i].st = EFI_BUFFER_TOO_SMALL /\ IsFetch(j))
            => /\ calls[j].size >= calls[i].size + 10 * fwDescSize
               /\ calls[j - 1].op = "AllocatePool"
               /\ calls[j - 1].size >= calls[i].size + 10 * fwDescSize
               /\ mapBufSize >= calls[i].size + 10 * fwDescSize

C7_Witness ==
    /\ fwDescSize = 48
    /\ \E i, j \in CallIdx :
        /\ IsProbe(i) /\ calls[i].size = 4096
        /\ IsFetch(j) /\ calls[j].size = 4576

\* C8: a Read that fails or delivers a byte count other than the reported
\* file size makes load_kernel_to_1m return EFI_DEVICE_ERROR after a
\* diagnostic and before entry resolution; UefiMain then returns without a
\* memory-map query, ExitBootServices or control transfer.  Read is issued
\* at most once.
C8_ShortReadIsFatal ==
    /\ Cardinality(OpIdx("Read")) <= 1
    /\ \A i \in OpIdx("Read") :
        (calls[i].st # EFI_SUCCESS \/ ReadSize # file.size)
            => /\ lkStatus = EFI_DEVICE_ERROR
               /\ i < Len(calls) /\ calls[i + 1].op = "Print"
               /\ kernel_entry_phys = <<0, 0, 0, 0>>
               /\ OpIdx("GetMemoryMap") = {}
               /\ OpIdx("ExitBootServices") = {}
               /\ bi = "NULL"
               /\ pc \in {"LoadKernelReturn", "returned"}
               /\ pc = "returned" => Status = EFI_DEVICE_ERROR

C8_Witness ==
    /\ pc = "returned"
    /\ Status = EFI_DEVICE_ERROR
    /\ file.size = FromNat(8192)
    /\ ReadSize = FromNat(4096)
    /\ \E i \in OpIdx("Read") : calls[i].st = EFI_SUCCESS

\* C9: ExitBootServices is invoked at most once, always with the map key
\* the memory-map snapshot captured; when it fails the loader reports the
\* failure, returns the failing status and never transfers control.
C9_ExitOnceWithSnapshotKey ==
    /\ Cardinality(OpIdx("ExitBootServices")) <= 1
    /\ \A j \in OpIdx("ExitBootServices") :
        /\ \E i \in 1 .. (j - 1) : IsSnapshot(i) /\ calls[j].key = calls[i].key
        /\ calls[j].st # EFI_SUCCESS
              => /\ j < Len(calls) /\ calls[j + 1].op = "Print"
                 /\ pc = "returned"
                 /\ Status = calls[j].st
                 /\ jump = NoJump

\* C10: the phases advance Idle -> Image Loaded -> Map Captured -> Services
\* Terminated -> Control Transferred: no memory-map query before the image
\* is loaded and its entry resolved, no ExitBootServices before the map is
\* captured, no control transfer before ExitBootServices succeeded.
C10_PhaseOrder ==
    /\ OpIdx("GetMemoryMap") # {} => EntryResolved
    /\ \A j \in OpIdx("ExitBootServices") :
          EntryResolved /\ \E i \in 1 .. (j - 1) : IsSnapshot(i)
    /\ pc = "transferred" => ExitSucceeded
    /\ jump # NoJump => pc = "transferred"

\* ------------------------------------------------------------------------
\* Vocabulary of the later properties
\* ------------------------------------------------------------------------

\* the first GetInfo call (size probe of the file information)
IsInfoProbe(i) ==
    /\ calls[i].op = "GetInfo"
    /\ \A k \in 1 .. (i - 1) : calls[k].op # "GetInfo"

\* a size probe answering EFI_BUFFER_TOO_SMALL did what it is called for
ExpectedProbe(i) ==
    /\ calls[i].st = EFI_BUFFER_TOO_SMALL
    /\ IsProbe(i) \/ IsInfoProbe(i)

\* the i-th firmware call failed
Failed(i) == calls[i].st # EFI_SUCCESS /\ ~ExpectedProbe(i)

\* p * 4096, for p below 2^52
PagesTimes4096(p) ==
    << (p[1] % 16) * 4096,
       (p[1] \div 16) + (p[2] % 16) * 4096,
       (p[2] \div 16) + (p[3] % 16) * 4096,
       (p[3] \div 16) + (p[4] % 16) * 4096 >>

\* a <= b on the limbs, most significant first
AtMost(a, b) ==
    \/ a = b
    \/ \E k \in 1 .. 4 : a[k] < b[k] /\ \A m \in (k + 1) .. 4 : a[m] = b[m]

\* a region of p pages holds n bytes
RegionHolds(p, n) == p[4] >= 16 \/ AtMost(n, PagesTimes4096(p))

\* the values UefiMain puts into the handoff record
Populated ==
    [memory_map |-> mem_map, memory_map_size |-> mem_map_size,
     descriptor_size |-> desc_size, descriptor_version |-> desc_version,
     physical_memory_offset |-> <<0, 0, 32768, 65535>>,
     kernel_entry_phys |-> kernel_entry_phys]

\* ------------------------------------------------------------------------
\* Properties, continued
\* ------------------------------------------------------------------------

\* C11: when ExitBootServices is called the handoff record holds the buffer,
\* used length, stride and version the successful populating GetMemoryMap
\* call captured, the offset 0xFFFF800000000000 and the resolved entry.
C11_HandoffCompleteAtExit ==
    \A j \in OpIdx("ExitBootServices") :
        /\ \E i \in 1 .. (j - 1) : IsSnapshot(i)
        /\ boot_info.memory_map = "pool"
        /\ boot_info.memory_map_size = fwMapSize
        /\ boot_info.descriptor_size = fwDescSize
        /\ boot_info.descriptor_version = 1
        /\ boot_info.physical_memory_offset = <<0, 0, 32768, 65535>>
        /\ EntryResolved
        /\ boot_info.kernel_entry_phys = kernel_entry_phys

\* C12: Read is issued only after AllocatePages reserved the range at
\* 0x00100000 and its destination is exactly 0x00100000; when AllocatePages
\* fails no Read follows and no second allocation is attempted.
C12_ReadIntoReservedRange ==
    /\ Cardinality(OpIdx("AllocatePages")) <= 1
    /\ \A i \in OpIdx("Read") :
          /\ \E a \in 1 .. (i - 1) :
                calls[a].op = "AllocatePages" /\ calls[a].st = EFI_SUCCESS
          /\ readDest = <<0, 16, 0, 0>>
    /\ \A a \in OpIdx("AllocatePages") :
          calls[a].st # EFI_SUCCESS
              => /\ OpIdx("Read") = {}
                 /\ lkStatus = calls[a].st

C12_Witness ==
    /\ pc = "ResolveEntry"
    /\ readDest = <<0, 16, 0, 0>>
    /\ \E i \in OpIdx("Read") : calls[i].st = EFI_SUCCESS

C14_TransferTargetAndArgument ==
    /\ bi = "pool" => boot_info = Populated
    /\ pc = "transferred"
          => /\ EntryResolved
             /\ jump.target = kernel_entry_phys
             /\ jump.arg = "pool"
             /\ bi = "pool"

C14_Witness ==
    /\ pc = "transferred"
    /\ jump = [target |-> <<52719, 35243, 17767, 291>>, arg |-> "pool"]

\* C15: GetMemoryMap is called at most twice; when the populating call
\* fails (EFI_BUFFER_TOO_SMALL included) the buffer is freed, that status is
\* returned and none of the five outputs is written.
C15_FetchFailureIsFinal ==
    /\ Cardinality(OpIdx("GetMemoryMap")) <= 2
    /\ \A j \in CallIdx :
        (IsFetch(j) /\ calls[j].st # EFI_SUCCESS)
            => /\ j < Len(calls) /\ calls[j + 1].op = "FreePool"
               /\ map = "freed"
               /\ gmStatus = calls[j].st
               /\ mem_map = "NULL"
               /\ mem_map_size = 0
               /\ desc_size = 0
               /\ desc_version = 0
               /\ map_key = 0

C15_Witness ==
    /\ pc = "returned"
    /\ Status = EFI_BUFFER_TOO_SMALL
    /\ map = "freed"
    /\ \E j \in CallIdx : IsFetch(j) /\ calls[j].st = EFI_BUFFER_TOO_SMALL

\* C16: whatever file size GetInfo reports, the region reserved at the load
\* address holds the bytes requested from Read: Pages * 4096 >= kernel_size
\* when Read is issued.
C16_RegionCoversRead ==
    OpIdx("Read") # {} => RegionHolds(Pages, kernel_size)

\* C17: with a firmware that invalidates the key on every pool allocation,
\* a run whose firmware calls other than ExitBootServices all succeed (the
\* probes asking for a buffer, Read delivering the whole file) does not end
\* with UefiMain returning: it reaches the control transfer.
C17_StrictFirmwareBoots ==
    (/\ fwStrict
     /\ \A i \in CallIdx : calls[i].op # "ExitBootServices" => ~Failed(i)
     /\ \A i \in CallIdx : IsProbe(i) => calls[i].st = EFI_BUFFER_TOO_SMALL
     /\ OpIdx("Read") # {} => ReadSize = file.size)
        => pc # "returned"

\* C18: once load_kernel_to_1m has returned after opening the file, the
\* file has been closed exactly once, FileInfo was freed exactly once if it
\* was allocated, and neither was used after its release.
C18_FileAndInfoReleasedOnce ==
    /\ closes <= 1 /\ frees <= 1
    /\ \A c \in OpIdx("Close") :
          \A k \in (c + 1) .. Len(calls) :
              calls[k].op \notin {"GetInfo", "Read", "Close"}
    /\ (frees = 1) => FileInfo = "freed" /\ pc \notin {"GetInfoFill", "AllocatePagesAt1M", "ReadKernel", "ResolveEntry"}
    /\ (lkStatus # "none" /\ KernelFile # "NULL")
          => /\ KernelFile = "closed"
             /\ closes = 1
             /\ FileInfo \in {"NULL", "freed"}
             /\ frees = (IF FileInfo = "freed" THEN 1 ELSE 0)

C18_Witness ==
    /\ lkStatus = EFI_SUCCESS
    /\ KernelFile = "closed"
    /\ FileInfo = "freed"
    /\ closes = 1
    /\ frees = 1

====
